---- MODULE Spec2Model ----
(***************************************************************************)
(* A model of the persona core of AI-Persona-Chatbot: the trait            *)
(* classifier and prompt enhancer (persona_enhancer.py), the prompt        *)
(* composer (app.py), the memory summarizer, conversation analyzer and     *)
(* profile mutator (memory_learning.py) and the conversation store they    *)
(* read (db.py).                                                           *)
(*                                                                         *)
(* Python values are tagged records [t, v]; a text is a sequence of        *)
(* one-character strings, so that lower(), strip(), startswith(), split()  *)
(* and the substring test are computed as Python computes them.  A dict    *)
(* is a function from its keys, so an absent key is a key outside DOMAIN.  *)
(* An operation returns Return(value) or Raise(exception type).            *)
(***************************************************************************)
EXTENDS Integers, Sequences, FiniteSets, TLC

VARIABLES
    op,             \* the operation that ran last ("none" after construction)
    args,           \* the arguments it was called with
    ret,            \* what it returned or raised
    conversations,  \* the rows of the conversations table, oldest first
    pc,             \* "idle", or "completion" while analyze_conversation_patterns
                    \* waits for the completion capability
    calls,          \* completion calls issued by the last run of the analyzer
    workload,       \* which part of the core the host exercises in this run
    session_state   \* st.session_state of app.py: character_profile,
                    \* chat_history, persona_created

vars == <<op, args, ret, conversations, pc, calls, workload, session_state>>

(***************************************************************************)
(* Python values.                                                          *)
(***************************************************************************)
Str(s) == [t |-> "str", v |-> s]
None == [t |-> "None", v |-> <<>>]
Num(n) == [t |-> "int", v |-> n]
List(xs) == [t |-> "list", v |-> xs]
Dict(d) == [t |-> "dict", v |-> d]

Return(x) == [t |-> "return", v |-> x]
Raise(e) == [t |-> "raise", v |-> e]

\* bool(x)
Truthy(x) ==
    CASE x.t = "None" -> FALSE
      [] x.t = "str" -> Len(x.v) > 0
      [] x.t = "list" -> Len(x.v) > 0
      [] x.t = "int" -> x.v # 0
      [] x.t = "dict" -> DOMAIN x.v # {}
      [] OTHER -> TRUE

\* d.get(k, default)
Get(d, k, default) == IF k \in DOMAIN d THEN d[k] ELSE default

(***************************************************************************)
(* Text.                                                                   *)
(***************************************************************************)
UpperCase == <<"A","B","C","D","E","F","G","H","I","J","K","L","M",
               "N","O","P","Q","R","S","T","U","V","W","X","Y","Z">>
LowerCase == <<"a","b","c","d","e","f","g","h","i","j","k","l","m",
               "n","o","p","q","r","s","t","u","v","w","x","y","z">>

LowerChar(c) ==
    IF \E i \in DOMAIN UpperCase : UpperCase[i] = c
    THEN LowerCase[CHOOSE i \in DOMAIN UpperCase : UpperCase[i] = c]
    ELSE c

\* s.lower()
lower(s) == [i \in DOMAIN s |-> LowerChar(s[i])]

\* sub in s
Contains(s, sub) ==
    \E i \in 0..(Len(s) - Len(sub)) : SubSeq(s, i + 1, i + Len(sub)) = sub

\* s.startswith(prefix)
startswith(s, prefix) ==
    Len(s) >= Len(prefix) /\ SubSeq(s, 1, Len(prefix)) = prefix

\* s.strip(chars)
strip(s, chars) ==
    LET keep == {i \in DOMAIN s : s[i] \notin chars} IN
    IF keep = {} THEN <<>>
    ELSE LET first == CHOOSE i \in keep : \A j \in keep : i <= j
             last == CHOOSE i \in keep : \A j \in keep : j <= i
         IN SubSeq(s, first, last)

Whitespace == {" ", "\n", "\t"}

(***************************************************************************)
(* A prompt is a sequence of pieces: Lit is fixed text of the source,      *)
(* Txt is text taken from a profile field or a message.                    *)
(***************************************************************************)
Lit(s) == [t |-> "lit", v |-> s]
Txt(s) == [t |-> "txt", v |-> s]

RECURSIVE Join(_, _)
\* sep.join(pieces)
Join(sep, pieces) ==
    IF Len(pieces) = 0 THEN <<>>
    ELSE IF Len(pieces) = 1 THEN <<pieces[1]>>
    ELSE <<pieces[1], sep>> \o Join(sep, Tail(pieces))

(***************************************************************************)
(* persona_enhancer.py: keywords.                                          *)
(***************************************************************************)
kw_cheerful == <<"c","h","e","e","r","f","u","l">>
kw_enthusiastic == <<"e","n","t","h","u","s","i","a","s","t","i","c">>
kw_upbeat == <<"u","p","b","e","a","t">>
kw_energetic == <<"e","n","e","r","g","e","t","i","c">>
kw_bubbly == <<"b","u","b","b","l","y">>
kw_expressive == <<"e","x","p","r","e","s","s","i","v","e">>
kw_fun == <<"f","u","n">>
kw_playful == <<"p","l","a","y","f","u","l">>
kw_serious == <<"s","e","r","i","o","u","s">>
kw_professional == <<"p","r","o","f","e","s","s","i","o","n","a","l">>
kw_formal == <<"f","o","r","m","a","l">>
kw_reserved == <<"r","e","s","e","r","v","e","d">>
kw_stoic == <<"s","t","o","i","c">>
kw_academic == <<"a","c","a","d","e","m","i","c">>
kw_scholarly == <<"s","c","h","o","l","a","r","l","y">>
kw_friendly == <<"f","r","i","e","n","d","l","y">>
kw_warm == <<"w","a","r","m">>
kw_casual == <<"c","a","s","u","a","l">>
kw_relaxed == <<"r","e","l","a","x","e","d">>
kw_excited == <<"e","x","c","i","t","e","d">>
kw_thoughtful == <<"t","h","o","u","g","h","t","f","u","l">>
kw_contemplative == <<"c","o","n","t","e","m","p","l","a","t","i","v","e">>
kw_humorous == <<"h","u","m","o","r","o","u","s">>
kw_witty == <<"w","i","t","t","y">>
kw_funny == <<"f","u","n","n","y">>
kw_short == <<"s","h","o","r","t">>
kw_concise == <<"c","o","n","c","i","s","e">>
kw_detailed == <<"d","e","t","a","i","l","e","d">>
kw_elaborate == <<"e","l","a","b","o","r","a","t","e">>
kw_questions == <<"q","u","e","s","t","i","o","n","s">>
kw_curious == <<"c","u","r","i","o","u","s">>
kw_stories == <<"s","t","o","r","i","e","s">>
kw_narrative == <<"n","a","r","r","a","t","i","v","e">>

high_emoji_keywords ==
    <<kw_cheerful, kw_enthusiastic, kw_upbeat, kw_energetic,
      kw_bubbly, kw_expressive, kw_fun, kw_playful>>

\* the list with "formal" left out
low_emoji_keywords_without_formal ==
    <<kw_serious, kw_professional, kw_reserved, kw_stoic, kw_academic, kw_scholarly>>

low_emoji_keywords ==
    <<kw_serious, kw_professional, kw_formal, kw_reserved,
      kw_stoic, kw_academic, kw_scholarly>>

\* the glyphs are named, not drawn
high_emoji_examples ==
    <<Lit("smiling_face"), Lit("sparkles"), Lit("party_popper"), Lit("dizzy"),
      Lit("glowing_star"), Lit("red_heart"), Lit("raising_hands"), Lit("thumbs_up")>>

moderate_emoji_examples == <<Lit("smiling_face"), Lit("thumbs_up"), Lit("sparkles")>>

\* any(keyword in personality or keyword in speaking_style for keyword in keywords)
any_keyword(keywords, personality, speaking_style) ==
    \E k \in DOMAIN keywords :
        Contains(personality, keywords[k]) \/ Contains(speaking_style, keywords[k])

emoji_usage(personality, speaking_style) ==
    IF any_keyword(high_emoji_keywords, personality, speaking_style) THEN "high"
    ELSE IF any_keyword(low_emoji_keywords, personality, speaking_style) THEN "minimal"
    ELSE "moderate"

emoji_examples(usage) ==
    CASE usage = "high" -> high_emoji_examples
      [] usage = "minimal" -> <<>>
      [] OTHER -> moderate_emoji_examples

When(cond, line) == IF cond THEN <<Lit(line)>> ELSE <<>>

\* the six tests chained with elif: only the first that matches appends
tone_patterns_first_match(personality, speaking_style) ==
    IF Contains(personality, kw_friendly) \/ Contains(personality, kw_warm)
    THEN <<Lit("Use warm, welcoming language")>>
    ELSE IF Contains(personality, kw_professional) \/ Contains(speaking_style, kw_formal)
    THEN <<Lit("Maintain professional demeanor")>>
    ELSE IF Contains(speaking_style, kw_casual) \/ Contains(personality, kw_relaxed)
    THEN <<Lit("Keep responses conversational and relaxed")>>
    ELSE IF Contains(personality, kw_enthusiastic) \/ Contains(personality, kw_excited)
    THEN <<Lit("Show excitement with exclamation marks")>>
    ELSE IF Contains(personality, kw_thoughtful) \/ Contains(personality, kw_contemplative)
    THEN <<Lit("Take time to reflect before responding")>>
    ELSE When(Contains(personality, kw_humorous) \/ Contains(personality, kw_witty)
                \/ Contains(personality, kw_funny),
              "Include appropriate humor and wit")

tone_patterns(personality, speaking_style) ==
    When(Contains(personality, kw_friendly) \/ Contains(personality, kw_warm),
         "Use warm, welcoming language")
    \o When(Contains(personality, kw_professional) \/ Contains(speaking_style, kw_formal),
            "Maintain professional demeanor")
    \o When(Contains(speaking_style, kw_casual) \/ Contains(personality, kw_relaxed),
            "Keep responses conversational and relaxed")
    \o When(Contains(personality, kw_enthusiastic) \/ Contains(personality, kw_excited),
            "Show excitement with exclamation marks")
    \o When(Contains(personality, kw_thoughtful) \/ Contains(personality, kw_contemplative),
            "Take time to reflect before responding")
    \o When(Contains(personality, kw_humorous) \/ Contains(personality, kw_witty)
                \/ Contains(personality, kw_funny),
            "Include appropriate humor and wit")

speaking_patterns(personality, speaking_style) ==
    (IF Contains(speaking_style, kw_short) \/ Contains(speaking_style, kw_concise)
     THEN <<Lit("Keep responses brief and to the point")>>
     ELSE When(Contains(speaking_style, kw_detailed) \/ Contains(speaking_style, kw_elaborate),
               "Provide detailed, comprehensive responses"))
    \o When(Contains(personality, kw_questions) \/ Contains(personality, kw_curious),
            "Ask follow-up questions naturally")
    \o When(Contains(personality, kw_stories) \/ Contains(speaking_style, kw_narrative),
            "Share relevant anecdotes and stories")

\* the field read without lower()
lowered_field_cased(character_profile, key) ==
    LET x == Get(character_profile, key, Str(<<>>)) IN
    IF x.t = "str" THEN Return(x.v) ELSE Raise("AttributeError")

\* .get(key, '').lower() of lines 10-11: None has no lower()
lowered_field(character_profile, key) ==
    LET x == Get(character_profile, key, Str(<<>>)) IN
    IF x.t = "str" THEN Return(lower(x.v)) ELSE Raise("AttributeError")

analyze_tone_and_emoji_patterns(character_profile) ==
    LET personality == lowered_field(character_profile, "personality")
        speaking_style == lowered_field(character_profile, "speaking_style")
    IN  IF personality.t = "raise" THEN personality
        ELSE IF speaking_style.t = "raise" THEN speaking_style
        ELSE LET usage == emoji_usage(personality.v, speaking_style.v) IN
             Return([emoji_usage |-> usage,
                     emoji_examples |-> emoji_examples(usage),
                     tone_patterns |-> tone_patterns(personality.v, speaking_style.v),
                     speaking_patterns |-> speaking_patterns(personality.v, speaking_style.v)])

Bullets(patterns) == [i \in DOMAIN patterns |-> Lit("- " \o patterns[i].v)]

emoji_instruction(patterns) ==
    CASE patterns.emoji_usage = "high" ->
            <<Lit("\n\nEmoji Usage: Use emojis frequently to express emotions and add warmth. Examples: ")>>
            \o Join(Lit(", "), patterns.emoji_examples)
      [] patterns.emoji_usage = "moderate" ->
            <<Lit("\n\nEmoji Usage: Use emojis occasionally for emphasis. Examples: ")>>
            \o Join(Lit(", "), patterns.emoji_examples)
      [] patterns.emoji_usage = "minimal" ->
            <<Lit("\n\nEmoji Usage: Use emojis sparingly or not at all. Maintain a more formal tone.")>>
      [] OTHER -> <<>>

enhance_system_prompt_with_patterns(base_prompt, patterns) ==
    Return(
        base_prompt
        \o emoji_instruction(patterns)
        \o (IF Len(patterns.tone_patterns) > 0
            THEN <<Lit("\n\nTone Guidelines:\n")>> \o Join(Lit("\n"), Bullets(patterns.tone_patterns))
            ELSE <<>>)
        \o (IF Len(patterns.speaking_patterns) > 0
            THEN <<Lit("\n\nSpeaking Patterns:\n")>> \o Join(Lit("\n"), Bullets(patterns.speaking_patterns))
            ELSE <<>>))

\* the two conditional bullets appended in the other order
apply_feedback_to_persona_swapped(character_profile, feedback_type) ==
    Return(
        IF feedback_type = "positive"
        THEN <<Lit("Great! The character's response style is working well in this context."),
               Lit("Consider saving this persona if you haven't already.")>>
        ELSE <<Lit("Here are some ways to improve:")>>
             \o When("personality" \in DOMAIN character_profile,
                     "- Consider refining personality traits to better match expectations")
             \o When("speaking_style" \in DOMAIN character_profile,
                     "- Try adjusting the speaking style for better alignment")
             \o <<Lit("- Use the 'Refine' feature to get AI-powered suggestions")>>)

apply_feedback_to_persona(character_profile, feedback_type) ==
    Return(
        IF feedback_type = "positive"
        THEN <<Lit("Great! The character's response style is working well in this context."),
               Lit("Consider saving this persona if you haven't already.")>>
        ELSE <<Lit("Here are some ways to improve:")>>
             \o When("speaking_style" \in DOMAIN character_profile,
                     "- Try adjusting the speaking style for better alignment")
             \o When("personality" \in DOMAIN character_profile,
                     "- Consider refining personality traits to better match expectations")
             \o <<Lit("- Use the 'Refine' feature to get AI-powered suggestions")>>)

(***************************************************************************)
(* app.py: generate_system_prompt.                                         *)
(***************************************************************************)
FieldLabel(field) ==
    CASE field = "name" -> "Name: "
      [] field = "personality" -> "Personality Traits: "
      [] field = "behaviors" -> "Behaviors and Habits: "
      [] field = "speaking_style" -> "Speaking Style: "
      [] field = "mannerisms" -> "Mannerisms and Quirks: "
      [] field = "background" -> "Background: "

\* the test written as: if field in character_profile
Paragraph_if_present(character_profile, field) ==
    IF field \in DOMAIN character_profile
    THEN <<Lit(FieldLabel(field)), Txt(character_profile[field].v), Lit("\n\n")>>
    ELSE <<>>

\* if character_profile.get(field): prompt += f"<label>{character_profile[field]}\n\n"
Paragraph(character_profile, field) ==
    IF Truthy(Get(character_profile, field, None))
    THEN <<Lit(FieldLabel(field)), Txt(character_profile[field].v), Lit("\n\n")>>
    ELSE <<>>

\* the block without its last line
Instructions_without_last ==
    <<Lit("\nInstructions:\n"),
      Lit("- Stay in character at all times\n"),
      Lit("- Respond naturally as this person would\n"),
      Lit("- Use the speaking style and mannerisms described\n"),
      Lit("- Draw from the personality traits and behaviors when forming responses\n"),
      Lit("- Be conversational and engaging\n")>>

Instructions ==
    <<Lit("\nInstructions:\n"),
      Lit("- Stay in character at all times\n"),
      Lit("- Respond naturally as this person would\n"),
      Lit("- Use the speaking style and mannerisms described\n"),
      Lit("- Draw from the personality traits and behaviors when forming responses\n"),
      Lit("- Be conversational and engaging\n"),
      Lit("- If asked about things outside your character's knowledge, respond as that character would\n")>>

generate_system_prompt(character_profile) ==
    Return(
        <<Lit("You are roleplaying as a character with the following attributes:\n\n")>>
        \o Paragraph(character_profile, "name")
        \o Paragraph(character_profile, "personality")
        \o Paragraph(character_profile, "behaviors")
        \o Paragraph(character_profile, "speaking_style")
        \o Paragraph(character_profile, "mannerisms")
        \o Paragraph(character_profile, "background")
        \o Instructions)

(***************************************************************************)
(* json.  A text is a sequence of atoms: one-character strings, and the    *)
(* names of JsonDocs, each standing for the whole serialised text of the   *)
(* JSON value it maps to.  No text of the one-character atoms used here    *)
(* (letters, backquote, comma, whitespace) is a JSON document.             *)
(***************************************************************************)
key_personality == "suggested_personality_additions"
key_behaviors == "suggested_behavior_additions"
key_style == "speaking_style_refinements"

role_user == <<"u","s","e","r">>
role_assistant == <<"a","s","s","i","s","t","a","n","t">>
User(content) == Dict([role |-> Str(role_user), content |-> Str(content)])
Assistant(content) == Dict([role |-> Str(role_assistant), content |-> Str(content)])

\* a message text of 81 characters
long_content == [i \in 1..81 |-> "x"]

JsonDocs ==
    [d \in {"{full}", "{part}", "{}", "[topics]", "7", "null", "'text'", "[chat]"} |->
        CASE d = "{full}" ->
                Dict([common_topics |-> List(<<Str(<<"a">>)>>),
                      successful_patterns |-> List(<<Str(<<"b">>)>>),
                      suggested_personality_additions |-> Str(<<"a">>),
                      suggested_behavior_additions |-> Str(<<"b">>),
                      speaking_style_refinements |-> Str(<<"c">>)])
          [] d = "{part}" ->
                Dict([suggested_personality_additions |-> Str(<<"a", ",">>),
                      suggested_behavior_additions |-> None])
          [] d = "{}" -> Dict(<<>>)
          [] d = "[topics]" -> List(<<Str(<<"a">>)>>)
          [] d = "7" -> Num(7)
          [] d = "null" -> None
          [] d = "'text'" -> Str(<<"a">>)
          [] d = "[chat]" -> List(<<User(long_content), Assistant(<<"y","o">>)>>)]

\* json.loads(text)
json_loads(text) ==
    LET body == strip(text, Whitespace) IN
    IF Len(body) = 1 /\ body[1] \in DOMAIN JsonDocs
    THEN Return(JsonDocs[body[1]])
    ELSE Raise("JSONDecodeError")

(***************************************************************************)
(* db.py: the conversations table and its two queries.                     *)
(***************************************************************************)
\* a row as the cursor returns it; psycopg2 decodes the JSONB column, which
\* gives back the value json.dumps was given
Row(persona_name, messages, user_id) ==
    [persona_name |-> persona_name, messages |-> messages, user_id |-> user_id]

\* the WHERE clause without its test of user_id
Matches_any_owner(row, persona_name, user_id) == row.persona_name = persona_name

\* WHERE persona_name = %s AND user_id = %s / user_id IS NULL
Matches(row, persona_name, user_id) ==
    /\ row.persona_name = persona_name
    /\ IF Truthy(user_id) THEN row.user_id = user_id ELSE row.user_id = None

RECURSIVE SelectRows(_, _, _)
SelectRows(table, persona_name, user_id) ==
    IF Len(table) = 0 THEN <<>>
    ELSE (IF Matches(table[1], persona_name, user_id) THEN <<table[1]>> ELSE <<>>)
         \o SelectRows(Tail(table), persona_name, user_id)

Reverse(s) == [i \in DOMAIN s |-> s[Len(s) + 1 - i]]

Min(a, b) == IF a <= b THEN a ELSE b

\* the query without its LIMIT
get_persona_conversations_unlimited(table, persona_name, user_id, limit) ==
    Reverse(SelectRows(table, persona_name, user_id))

\* ORDER BY created_at DESC LIMIT %s
get_persona_conversations(table, persona_name, user_id, limit) ==
    LET rows == Reverse(SelectRows(table, persona_name, user_id)) IN
    SubSeq(rows, 1, Min(limit, Len(rows)))

\* json.loads(conv['messages']) if isinstance(conv['messages'], str) else conv['messages']
decoded_messages(conv) ==
    IF conv.messages.t = "str" THEN json_loads(conv.messages.v) ELSE Return(conv.messages)

\* all_messages.extend(messages)
iterate(x) ==
    CASE x.t = "list" -> Return(x.v)
      [] x.t = "str" -> Return([i \in DOMAIN x.v |-> Str(<<x.v[i]>>)])
      [] x.t = "dict" /\ DOMAIN x.v = {} -> Return(<<>>)
      [] OTHER -> Raise("TypeError")

RECURSIVE extend_all(_, _)
extend_all(all_messages, rows) ==
    IF Len(rows) = 0 THEN Return(all_messages)
    ELSE LET messages == decoded_messages(rows[1]) IN
         IF messages.t = "raise" THEN messages
         ELSE LET items == iterate(messages.v) IN
              IF items.t = "raise" THEN items
              ELSE extend_all(all_messages \o items.v, Tail(rows))

\* ORDER BY created_at ASC
get_all_persona_messages(table, persona_name, user_id) ==
    extend_all(<<>>, SelectRows(table, persona_name, user_id))

(***************************************************************************)
(* memory_learning.py: build_memory_context.                               *)
(***************************************************************************)
\* msg[key]
Subscript(msg, key) ==
    IF msg.t # "dict" THEN Raise("TypeError")
    ELSE IF key \notin DOMAIN msg.v THEN Raise("KeyError")
    ELSE Return(msg.v[key])

\* content[:80]
Slice80(content) ==
    IF content.t \in {"str", "list"}
    THEN Return(SubSeq(content.v, 1, Min(80, Len(content.v))))
    ELSE Raise("TypeError")

\* lines 24-26 for one message: the bullets it adds
summary_point(msg) ==
    LET role == Subscript(msg, "role") IN
    IF role.t = "raise" THEN role
    ELSE IF role.v # Str(role_user) THEN Return(<<>>)
    ELSE LET content == Subscript(msg, "content") IN
         IF content.t = "raise" THEN content
         ELSE LET cut == Slice80(content.v) IN
              IF cut.t = "raise" THEN cut
              ELSE Return(<<<<Lit("- User mentioned: "), Txt(cut.v), Lit("...")>>>>)

RECURSIVE summary_points_forward(_, _, _)
\* the last messages walked oldest first
summary_points_forward(messages, i, n) ==
    IF i >= n THEN Return(<<>>)
    ELSE LET point == summary_point(messages[Len(messages) - n + 1 + i]) IN
         IF point.t = "raise" THEN point
         ELSE LET rest == summary_points_forward(messages, i + 1, n) IN
              IF rest.t = "raise" THEN rest ELSE Return(point.v \o rest.v)

RECURSIVE summary_points(_, _, _)
\* lines 22-26: messages[-(i+1)] for i in range(min(4, len(messages)))
summary_points(messages, i, n) ==
    IF i >= n THEN Return(<<>>)
    ELSE LET point == summary_point(messages[Len(messages) - i]) IN
         IF point.t = "raise" THEN point
         ELSE LET rest == summary_points(messages, i + 1, n) IN
              IF rest.t = "raise" THEN rest ELSE Return(point.v \o rest.v)

\* len(messages) and messages[-(i+1)] of a value that is not a list
session_points(messages) ==
    CASE messages.t = "list" ->
            summary_points(messages.v, 0, Min(4, Len(messages.v)))
      [] messages.t = "str" ->
            IF Len(messages.v) = 0 THEN Return(<<>>) ELSE Raise("TypeError")
      [] messages.t = "dict" ->
            IF DOMAIN messages.v = {} THEN Return(<<>>) ELSE Raise("KeyError")
      [] OTHER -> Raise("TypeError")

RECURSIVE Flatten(_)
Flatten(seqs) == IF Len(seqs) = 0 THEN <<>> ELSE seqs[1] \o Flatten(Tail(seqs))

RECURSIVE JoinLines(_)
\* "\n".join(lines), each line a run of pieces
JoinLines(lines) ==
    IF Len(lines) = 0 THEN <<>>
    ELSE IF Len(lines) = 1 THEN lines[1]
    ELSE lines[1] \o <<Lit("\n")>> \o JoinLines(Tail(lines))

\* the label written without the test of line 28
session_block_unguarded(points) ==
    <<Lit("\nPrevious session:\n")>> \o JoinLines(SubSeq(points, 1, Min(2, Len(points))))

\* lines 28-29: summary_points[:2] under the session label
session_block(points) ==
    IF Len(points) > 0
    THEN <<Lit("\nPrevious session:\n")>> \o JoinLines(SubSeq(points, 1, Min(2, Len(points))))
    ELSE <<>>

RECURSIVE session_blocks(_)
\* lines 18-29
session_blocks(recent_conversations) ==
    IF Len(recent_conversations) = 0 THEN Return(<<>>)
    ELSE LET messages == decoded_messages(recent_conversations[1]) IN
         IF messages.t = "raise" THEN messages
         ELSE LET points == session_points(messages.v) IN
              IF points.t = "raise" THEN points
              ELSE LET rest == session_blocks(Tail(recent_conversations)) IN
                   IF rest.t = "raise" THEN rest
                   ELSE Return(session_block(points.v) \o rest.v)

memory_limit == 3

\* db_module.get_persona_conversations(persona_name, user_id=user_id, limit=3);
\* db_up is whether the connection can be made
recent_conversations_of(table, db_up, persona_name, user_id) ==
    IF db_up THEN Return(get_persona_conversations(table, persona_name, user_id, memory_limit))
    ELSE Raise("OperationalError")

\* the body of the try, lines 11-32
memory_context(recent_conversations) ==
    IF recent_conversations.t = "raise" THEN recent_conversations
    ELSE IF Len(recent_conversations.v) = 0 THEN Return(<<>>)
    ELSE LET blocks == session_blocks(recent_conversations.v) IN
         IF blocks.t = "raise" THEN blocks
         ELSE Return(<<Lit("\n\nMemory from previous conversations:\n")>>
                     \o blocks.v
                     \o <<Lit("\n\nUse these memories naturally in conversation when relevant.")>>)

\* the except clause left out
silent_fail_reraise(result) == result

\* except Exception: return ""
silent_fail(result) == IF result.t = "raise" THEN Return(<<>>) ELSE result

build_memory_context(table, db_up, persona_name, user_id) ==
    silent_fail(memory_context(recent_conversations_of(table, db_up, persona_name, user_id)))

(***************************************************************************)
(* memory_learning.py: analyze_conversation_patterns.                      *)
(***************************************************************************)
Failure(message) == Return([success |-> FALSE, message |-> message])
Success(analysis) == Return([success |-> TRUE, analysis |-> analysis])

insufficient_message ==
    <<Lit("Need at least 5 conversation exchanges (10 messages) to analyze patterns.")>>
unable_message == <<Lit("Unable to generate analysis at this time.")>>
\* f'Error analyzing patterns: {str(e)}'
error_message(e) == <<Lit("Error analyzing patterns: "), Lit(e)>>

min_messages == 10

RECURSIVE contents_of(_, _)
\* [msg['content'] for msg in all_messages if msg['role'] == role]
contents_of(all_messages, role) ==
    IF Len(all_messages) = 0 THEN Return(<<>>)
    ELSE LET r == Subscript(all_messages[1], "role") IN
         IF r.t = "raise" THEN r
         ELSE LET c == IF r.v = Str(role) THEN Subscript(all_messages[1], "content")
                       ELSE Return(None)
                  rest == contents_of(Tail(all_messages), role)
              IN  IF c.t = "raise" THEN c
                  ELSE IF rest.t = "raise" THEN rest
                  ELSE Return((IF r.v = Str(role) THEN <<c.v>> ELSE <<>>) \o rest.v)

First(s, n) == SubSeq(s, 1, Min(n, Len(s)))
Last(s, n) == SubSeq(s, Len(s) - Min(n, Len(s)) + 1, Len(s))

\* chr(10).join(items): every item must be a str
joinable(items) ==
    IF \A i \in DOMAIN items : items[i].t = "str" THEN Return(items) ELSE Raise("TypeError")

\* lines 50-82
analysis_prompt(persona_name, all_messages) ==
    LET user_messages == contents_of(all_messages, role_user) IN
    IF user_messages.t = "raise" THEN user_messages
    ELSE LET assistant_messages == contents_of(all_messages, role_assistant) IN
         IF assistant_messages.t = "raise" THEN assistant_messages
         ELSE IF joinable(user_messages.v).t = "raise" THEN joinable(user_messages.v)
         ELSE IF joinable(assistant_messages.v).t = "raise" THEN joinable(assistant_messages.v)
         ELSE Return([persona_name |-> persona_name,
                      total_exchanges |-> Len(all_messages) \div 2,
                      first_user |-> First(user_messages.v, 5),
                      first_assistant |-> First(assistant_messages.v, 5),
                      latest_user |-> Last(user_messages.v, 3),
                      latest_assistant |-> Last(assistant_messages.v, 3)])

\* db_module.get_all_persona_messages(persona_name, user_id=user_id)
all_messages_of(table, db_up, persona_name, user_id) ==
    IF db_up THEN get_all_persona_messages(table, persona_name, user_id)
    ELSE Raise("OperationalError")

Call(prompt) == [t |-> "call", v |-> prompt]

\* the threshold test written as <=
before_completion_off_by_one(persona_name, all_messages) ==
    IF all_messages.t = "raise" THEN all_messages
    ELSE IF Len(all_messages.v) <= min_messages THEN Failure(insufficient_message)
    ELSE LET prompt == analysis_prompt(persona_name, all_messages.v) IN
         IF prompt.t = "raise" THEN prompt ELSE [t |-> "call", v |-> prompt.v]

\* lines 41-83: up to the completion call.  Return(result), Raise(e), or
\* Call(prompt) when the completion capability is to be called
before_completion(persona_name, all_messages) ==
    IF all_messages.t = "raise" THEN all_messages
    ELSE IF Len(all_messages.v) < min_messages THEN Failure(insufficient_message)
    ELSE LET prompt == analysis_prompt(persona_name, all_messages.v) IN
         IF prompt.t = "raise" THEN prompt ELSE Call(prompt.v)

\* the atom "BQ" is the backquote character
backquote == "BQ"
fence == <<backquote, backquote, backquote>>
json_tag == <<"j", "s", "o", "n">>

\* everything after the opening fence, the closing fence included
after_fence_to_end(text) == SubSeq(text, Len(fence) + 1, Len(text))

\* text.split(fence)[1] of a text that starts with the fence
after_fence(text) ==
    LET rest == SubSeq(text, Len(fence) + 1, Len(text))
        at == {i \in 1..Len(rest) : startswith(SubSeq(rest, i, Len(rest)), fence)}
    IN  IF at = {} THEN rest
        ELSE SubSeq(rest, 1, (CHOOSE i \in at : \A j \in at : i <= j) - 1)

\* lines 91-96
clean_text(response_text) ==
    LET text == strip(response_text, Whitespace) IN
    IF startswith(text, fence)
    THEN LET inner == after_fence(text) IN
         IF startswith(inner, json_tag) THEN SubSeq(inner, Len(json_tag) + 1, Len(inner))
         ELSE inner
    ELSE text

\* the fallback reported as a failure that still carries the payload
parse_analysis_flagged(text) ==
    LET analysis == json_loads(text) IN
    IF analysis.t = "return" THEN Success(analysis.v)
    ELSE Return([success |-> FALSE, analysis |-> Dict([raw_response |-> Str(text)])])

\* lines 98-110
parse_analysis(text) ==
    LET analysis == json_loads(text) IN
    IF analysis.t = "return" THEN Success(analysis.v)
    ELSE Success(Dict([raw_response |-> Str(text)]))

\* the text used without the test of line 89
after_completion_untested(response) ==
    IF response.t = "raise" THEN response
    ELSE IF response.v.t = "str" THEN parse_analysis(clean_text(response.v.v))
    ELSE Raise("AttributeError")

\* lines 89-115: response is what generate_content returned or raised
after_completion(response) ==
    IF response.t = "raise" THEN response
    ELSE IF Truthy(response.v) THEN parse_analysis(clean_text(response.v.v))
    ELSE Failure(unable_message)

\* except Exception as e: lines 117-121
caught(result) == IF result.t = "raise" THEN Failure(error_message(result.v)) ELSE result

(***************************************************************************)
(* memory_learning.py: apply_learning_to_persona.                          *)
(***************************************************************************)
KeyChars(key) ==
    CASE key = "suggested_personality_additions" ->
            <<"s","u","g","g","e","s","t","e","d","_","p","e","r","s","o","n","a","l","i","t","y","_","a","d","d","i","t","i","o","n","s">>
      [] key = "suggested_behavior_additions" ->
            <<"s","u","g","g","e","s","t","e","d","_","b","e","h","a","v","i","o","r","_","a","d","d","i","t","i","o","n","s">>
      [] key = "speaking_style_refinements" ->
            <<"s","p","e","a","k","i","n","g","_","s","t","y","l","e","_","r","e","f","i","n","e","m","e","n","t","s">>

\* key in analysis
contains_key(analysis, key) ==
    CASE analysis.t = "dict" -> Return(key \in DOMAIN analysis.v)
      [] analysis.t = "list" ->
            Return(\E i \in DOMAIN analysis.v : analysis.v[i] = Str(KeyChars(key)))
      [] analysis.t = "str" -> Return(Contains(analysis.v, KeyChars(key)))
      [] OTHER -> Raise("TypeError")

\* analysis[key]
item(analysis, key) ==
    IF analysis.t = "dict" /\ key \in DOMAIN analysis.v THEN Return(analysis.v[key])
    ELSE Raise("TypeError")

\* new not in current
not_in(new, current) ==
    IF current.t = "str" /\ new.t = "str" THEN Return(~Contains(current.v, new.v))
    ELSE Raise("TypeError")

strip_chars == {",", " "}

\* f"{current}, {new}".strip(', ')
appended(current, new) == Str(strip(current.v \o <<",", " ">> \o new.v, strip_chars))

\* lines 135-139, and the same for the other two fields
merge_field(enhanced, analysis, field, key) ==
    IF enhanced.t = "raise" THEN enhanced
    ELSE LET has == contains_key(analysis, key) IN
         IF has.t = "raise" THEN has
         ELSE IF ~has.v THEN enhanced
         ELSE LET new == item(analysis, key) IN
              IF new.t = "raise" THEN new
              ELSE IF ~Truthy(new.v) THEN enhanced
              ELSE LET current == Get(enhanced.v, field, Str(<<>>))
                       fresh == not_in(new.v, current)
                   IN  IF fresh.t = "raise" THEN fresh
                       ELSE IF ~fresh.v THEN enhanced
                       ELSE Return([f \in DOMAIN enhanced.v \cup {field} |->
                                       IF f = field THEN appended(current, new.v)
                                       ELSE enhanced.v[f]])

\* enhanced_profile = character_profile: the writes reach the caller's dict
input_after_call_aliased(character_profile, result) ==
    IF result.t = "return" THEN result.v ELSE character_profile

\* line 127: the writes of lines 139-153 go to the copy, so the dict the
\* caller passed holds after the call what it held before
input_after_call(character_profile, result) == character_profile

apply_learning_to_persona(character_profile, learning_analysis) ==
    IF "analysis" \notin DOMAIN learning_analysis THEN Return(character_profile)
    ELSE LET analysis == learning_analysis.analysis IN
         merge_field(
             merge_field(
                 merge_field(Return(character_profile), analysis, "personality", key_personality),
                 analysis, "behaviors", key_behaviors),
             analysis, "speaking_style", key_style)

(***************************************************************************)
(* app.py: chat_with_persona and the handlers of main.                     *)
(***************************************************************************)
trouble_message == <<"I'm having trouble responding right now.">>
\* f"Error generating response: {str(e)}"
chat_error_message(e) == <<"Error generating response: ", e>>

\* lines 70-73
conversation_part(message) ==
    IF message.v["role"] = Str(role_user)
    THEN <<Lit("User: "), Txt(message.v["content"].v)>>
    ELSE <<Lit("Character: "), Txt(message.v["content"].v)>>

\* lines 66-77
conversation_context(user_message, chat_history) ==
    JoinLines([i \in DOMAIN chat_history |-> conversation_part(chat_history[i])]
              \o <<<<Lit("User: "), Txt(user_message)>>>>)

\* lines 59-79: the prompt handed to generate_content
full_prompt(character_profile, user_message, chat_history) ==
    LET system_prompt == generate_system_prompt(character_profile)
        patterns == analyze_tone_and_emoji_patterns(character_profile)
    IN  IF system_prompt.t = "raise" THEN system_prompt
        ELSE IF patterns.t = "raise" THEN patterns
        ELSE LET enhanced_prompt ==
                    enhance_system_prompt_with_patterns(system_prompt.v, patterns.v)
             IN  Return(enhanced_prompt.v
                        \o <<Lit("\n\nConversation:\n")>>
                        \o conversation_context(user_message, chat_history)
                        \o <<Lit("\n\nCharacter:")>>)

\* line 90: response.text if response.text else the apology
chat_reply(response) ==
    IF response.t = "raise" THEN response
    ELSE IF Truthy(response.v) THEN Return(response.v)
    ELSE Return(Str(trouble_message))

\* the failure swallowed without its text
chat_caught_silent(result) ==
    IF result.t = "raise" THEN Return(Str(<<>>)) ELSE result

\* lines 92-93
chat_caught(result) ==
    IF result.t = "raise" THEN Return(Str(chat_error_message(result.v))) ELSE result

\* the test written as: if personality
personality_given_unstripped(personality) == Truthy(personality)

\* line 212: personality and personality.strip()
personality_given(personality) ==
    Truthy(personality) /\ Truthy(Str(strip(personality.v, Whitespace)))

\* lines 128-135
fresh_session == [character_profile |-> <<>>, chat_history |-> <<>>, persona_created |-> FALSE]

(***************************************************************************)
(* Inputs.                                                                 *)
(***************************************************************************)
MaxLen == 2         \* longest text of the mutator's inputs
MaxRows == 4        \* most rows of the conversations table
MaxChunks == 4      \* most chunks of a completion's text
MaxTurns == 2       \* most chat turns of one chat history
MaxSaved == 3       \* most rows of the table when personas and owners vary

Absent == [t |-> "absent", v |-> <<>>]

\* a dict of the keys that are given a value
DictOf(f) == [k \in {k \in DOMAIN f : f[k].t # "absent"} |-> f[k]]

t_Cheerful_optimistic == <<"C","h","e","e","r","f","u","l",","," ","o","p","t","i","m","i","s","t","i","c">>
t_CHEERFUL == <<"C","H","E","E","R","F","U","L">>
t_cheerful_formal == <<"c","h","e","e","r","f","u","l",","," ","f","o","r","m","a","l">>
t_formal == <<"f","o","r","m","a","l">>
t_Serious == <<"S","e","r","i","o","u","s">>
t_funny == <<"f","u","n","n","y">>
t_friendly == <<"f","r","i","e","n","d","l","y">>
t_calm == <<"c","a","l","m">>
t_casual == <<"c","a","s","u","a","l">>
t_playful == <<"p","l","a","y","f","u","l">>
t_reserved == <<"r","e","s","e","r","v","e","d">>
t_friendly_funny == <<"f","r","i","e","n","d","l","y",","," ","f","u","n","n","y">>
t_Thoughtful == <<"T","h","o","u","g","h","t","f","u","l">>
t_formal_FUN == <<"f","o","r","m","a","l"," ","F","U","N">>

TonePersonalities ==
    {Absent, None, Str(<<>>), Str(t_Cheerful_optimistic), Str(t_CHEERFUL), Str(t_cheerful_formal),
     Str(t_formal), Str(t_Serious), Str(t_funny), Str(t_friendly), Str(t_calm), Str(t_playful),
     Str(t_formal_FUN), Str(t_friendly_funny), Str(t_Thoughtful), Str(kw_excited),
     Str(kw_relaxed)}

ToneStyles ==
    {Absent, None, Str(t_formal), Str(t_casual), Str(t_reserved), Str(t_playful), Str(t_calm),
     Str(t_friendly)}

ToneProfiles ==
    {DictOf([personality |-> p, speaking_style |-> s]) : p \in TonePersonalities, s \in ToneStyles}

FieldValues == {Absent, None, Str(<<>>), Str(<<" ">>), Str(<<"a">>)}
FewValues == {Absent, Str(<<"b">>)}

PromptProfiles ==
    {DictOf([name |-> n, personality |-> p, behaviors |-> b,
             speaking_style |-> s, mannerisms |-> m, background |-> g]) :
        n \in FieldValues, p \in FieldValues, b \in FewValues,
        s \in FewValues, m \in FewValues, g \in FieldValues}

PersonaProfiles == ToneProfiles \cup PromptProfiles

RECURSIVE TextsUpTo(_, _)
\* the texts over an alphabet of at most n characters
TextsUpTo(alphabet, n) ==
    IF n = 0 THEN {<<>>}
    ELSE LET shorter == TextsUpTo(alphabet, n - 1) IN
         shorter \cup {Append(s, c) : s \in shorter, c \in alphabet}

LearnTexts == {Str(s) : s \in TextsUpTo({"a", ",", " "}, MaxLen)}

LearnProfiles ==
    {DictOf([name |-> n, personality |-> p, behaviors |-> b, speaking_style |-> s,
             mannerisms |-> IF n = Absent THEN Absent ELSE Str(<<"m">>),
             background |-> IF n = Absent THEN Absent ELSE Str(<<"g">>)]) :
        n \in {Absent, Str(<<"n">>)},
        p \in LearnTexts \cup {Absent, None},
        b \in {Absent, Str(<<"a">>)},
        s \in {Absent, Str(<<"a", ",">>)}}

\* what analyze_conversation_patterns can return
LearnAnalyses ==
    {Failure(insufficient_message).v, Failure(unable_message).v}
    \cup {Success(Dict(DictOf([suggested_personality_additions |-> p,
                               suggested_behavior_additions |-> b,
                               speaking_style_refinements |-> s]))).v :
            p \in LearnTexts \cup {Absent, None},
            b \in {Absent, Str(<<"a">>), Str(<<",", "b">>)},
            s \in {Absent, Str(<<"a">>)}}
    \cup {Success(Dict([raw_response |-> Str(<<"a">>)])).v}
    \cup {Success(JsonDocs[d]).v : d \in DOMAIN JsonDocs}

\* persona names and owners: users.id is SERIAL, so an owner is None or a
\* positive number
PersonaNames == IF workload = "isolation" THEN {"p", "q"} ELSE {"p"}
UserIds == IF workload = "isolation" THEN {None, Num(1), Num(2)} ELSE {None}
Limits == {1, 2}

\* conversations as a caller hands them to save_conversation
c_five == List(<<User(<<"u","1">>), Assistant(<<"a","1">>), Assistant(<<"a","2">>),
                 Assistant(<<"a","3">>), User(<<"u","2">>)>>)
c_four == List(<<User(<<"u","1">>), User(<<"u","2">>), User(<<"u","3">>), Assistant(<<"a","1">>)>>)
c_assistant_only == List(<<Assistant(<<"a","1">>), Assistant(<<"a","2">>)>>)
c_no_content == List(<<User(<<"u","1">>), Dict([role |-> Str(role_assistant)])>>)
c_no_role == List(<<Dict([content |-> Str(<<"u","1">>)])>>)
c_unparseable == Str(<<"a">>)
c_encoded == Str(<<"[chat]">>)

\* when personas and owners vary, consecutive saves hold different
\* conversations, so that the order of the rows read shows
StoredMessages ==
    IF workload = "isolation"
    THEN {IF Len(conversations) % 2 = 0 THEN c_four ELSE c_assistant_only}
    ELSE {c_five, c_four, c_assistant_only, c_no_content, c_no_role, c_unparseable, c_encoded}

RowLimit == IF workload = "isolation" THEN MaxSaved ELSE MaxRows

\* the chunks a completion's text is made of
Chunks == {fence, json_tag, <<"j", "s">>, <<"\n">>, <<"{full}">>, <<"a">>}

RECURSIVE ChunkTexts(_)
ChunkTexts(n) ==
    IF n = 0 THEN {<<>>}
    ELSE LET shorter == ChunkTexts(n - 1) IN
         shorter \cup {s \o c : s \in shorter, c \in Chunks}

\* what generate_content does: it raises, or returns a response whose text
\* is None or a str
FewResponses ==
    {Raise("ServerError"), Return(None), Return(Str(<<>>)),
     Return(Str(<<"{full}">>)), Return(Str(<<"null">>)), Return(Str(<<"a">>))}
AllResponses ==
    {Raise("ServerError"), Return(None)} \cup {Return(Str(s)) : s \in ChunkTexts(MaxChunks)}

Responses == IF workload = "completion" THEN AllResponses ELSE FewResponses

\* what the character form submits: every field is a text
Forms ==
    {[name |-> n, personality |-> p, behaviors |-> Str(<<>>), speaking_style |-> s,
      mannerisms |-> Str(<<>>), background |-> Str(<<>>)] :
        n \in {Str(<<>>), Str(<<"p">>)},
        p \in {Str(<<>>), Str(<<" ">>), Str(t_formal), Str(t_Cheerful_optimistic)},
        s \in {Str(<<>>), Str(t_casual)}}

\* st.chat_input gives a non-empty text
UserInputs == {<<"h", "i">>}

Nothing == [t |-> "nothing", v |-> <<>>]
Pending == [t |-> "pending", v |-> <<>>]

(***************************************************************************)
(* Initial states: one per workload and input.                             *)
(***************************************************************************)
InitCommon ==
    /\ op = "none"
    /\ ret = Nothing
    /\ pc = "idle"
    /\ calls = 0

InitPersona ==
    /\ InitCommon
    /\ session_state = fresh_session
    /\ workload = "persona"
    /\ conversations = <<>>
    /\ args \in {[character_profile |-> p] : p \in PersonaProfiles}

InitLearning ==
    /\ InitCommon
    /\ session_state = fresh_session
    /\ workload = "learning"
    /\ conversations = <<>>
    /\ args \in {[character_profile |-> p, learning_analysis |-> a, round |-> 0] :
                    p \in LearnProfiles, a \in LearnAnalyses}

InitStorage ==
    /\ InitCommon
    /\ session_state = fresh_session
    /\ workload = "storage"
    /\ conversations = <<>>
    /\ args = <<>>

\* a history of twelve messages, so that the analyzer reaches the completion call
InitCompletion ==
    /\ InitCommon
    /\ session_state = fresh_session
    /\ workload = "completion"
    /\ conversations = <<Row("p", c_five, None), Row("p", c_five, None), Row("p", c_encoded, None)>>
    /\ args = <<>>

\* the app starts with an empty session; the store may hold an earlier
\* conversation with the persona named p
InitApp ==
    /\ InitCommon
    /\ workload = "app"
    /\ session_state = fresh_session
    /\ conversations \in {<<>>, <<Row("p", c_four, None)>>}
    /\ args = <<>>

\* an empty table, to be filled for several personas and owners
InitIsolation ==
    /\ InitCommon
    /\ workload = "isolation"
    /\ session_state = fresh_session
    /\ conversations = <<>>
    /\ args = <<>>

Init == InitPersona \/ InitLearning \/ InitStorage \/ InitCompletion \/ InitApp \/ InitIsolation

(***************************************************************************)
(* Operations.                                                             *)
(***************************************************************************)
Unchanged == UNCHANGED <<conversations, pc, calls, workload, session_state>>

AnalyzeTone ==
    /\ workload = "persona" /\ op = "none"
    /\ op' = "analyze_tone_and_emoji_patterns"
    /\ args' = args
    /\ ret' = analyze_tone_and_emoji_patterns(args.character_profile)
    /\ Unchanged

GenerateSystemPrompt ==
    /\ workload = "persona" /\ op = "none"
    /\ op' = "generate_system_prompt"
    /\ args' = args
    /\ ret' = generate_system_prompt(args.character_profile)
    /\ Unchanged

\* app.py lines 59-63: the prompt is enhanced with the patterns of the profile
EnhanceSystemPrompt ==
    /\ workload = "persona" /\ op = "none"
    /\ LET base_prompt == generate_system_prompt(args.character_profile)
           patterns == analyze_tone_and_emoji_patterns(args.character_profile)
       IN  /\ base_prompt.t = "return" /\ patterns.t = "return"
           /\ op' = "enhance_system_prompt_with_patterns"
           /\ args' = [character_profile |-> args.character_profile,
                       base_prompt |-> base_prompt.v, patterns |-> patterns.v]
           /\ ret' = enhance_system_prompt_with_patterns(base_prompt.v, patterns.v)
    /\ Unchanged

ApplyFeedback ==
    /\ workload = "persona" /\ op = "none"
    /\ \E feedback_type \in {"positive", "negative"} :
        /\ op' = "apply_feedback_to_persona"
        /\ args' = [character_profile |-> args.character_profile, feedback_type |-> feedback_type]
        /\ ret' = apply_feedback_to_persona(args.character_profile, feedback_type)
    /\ Unchanged

\* the learn action: the analysis is applied to the profile
ApplyLearning ==
    /\ workload = "learning" /\ op = "none"
    /\ op' = "apply_learning_to_persona"
    /\ ret' = apply_learning_to_persona(args.character_profile, args.learning_analysis)
    /\ args' = [character_profile |-> args.character_profile,
                learning_analysis |-> args.learning_analysis,
                round |-> 1,
                profile_after |-> input_after_call(args.character_profile, ret')]
    /\ Unchanged

\* the same analysis applied to the profile the first application returned
ApplyLearningAgain ==
    /\ workload = "learning" /\ op = "apply_learning_to_persona"
    /\ args.round = 1 /\ ret.t = "return"
    /\ op' = op
    /\ ret' = apply_learning_to_persona(ret.v, args.learning_analysis)
    /\ args' = [character_profile |-> ret.v,
                learning_analysis |-> args.learning_analysis,
                round |-> 2,
                profile_after |-> input_after_call(ret.v, ret')]
    /\ Unchanged

\* db.save_conversation: INSERT ... RETURNING id
SaveConversation ==
    /\ workload \in {"storage", "isolation"} /\ pc = "idle"
    /\ Len(conversations) < RowLimit
    /\ \E persona_name \in PersonaNames, user_id \in UserIds, messages \in StoredMessages :
        /\ conversations' = Append(conversations, Row(persona_name, messages, user_id))
        /\ op' = "save_conversation"
        /\ args' = [persona_name |-> persona_name, messages |-> messages, user_id |-> user_id]
        /\ ret' = Return(Num(Len(conversations) + 1))
    /\ UNCHANGED <<pc, calls, workload, session_state>>

BuildMemoryContext ==
    /\ workload = "storage" /\ pc = "idle"
    /\ \E persona_name \in PersonaNames, user_id \in UserIds, db_up \in BOOLEAN :
        /\ op' = "build_memory_context"
        /\ args' = [persona_name |-> persona_name, user_id |-> user_id,
                    recent_conversations |->
                        recent_conversations_of(conversations, db_up, persona_name, user_id)]
        /\ ret' = build_memory_context(conversations, db_up, persona_name, user_id)
    /\ Unchanged

\* analyze_conversation_patterns up to its return or to the completion call
AnalyzeRead ==
    /\ workload \in {"storage", "completion"} /\ pc = "idle"
    /\ \E persona_name \in PersonaNames, user_id \in UserIds, db_up \in BOOLEAN :
        LET all_messages == all_messages_of(conversations, db_up, persona_name, user_id)
            step == before_completion(persona_name, all_messages)
        IN  /\ op' = "analyze_conversation_patterns"
            /\ args' = [persona_name |-> persona_name, user_id |-> user_id,
                        all_messages |-> all_messages]
            /\ IF step.t = "call"
               THEN /\ pc' = "completion"
                    /\ calls' = 1
                    /\ ret' = Pending
               ELSE /\ pc' = "idle"
                    /\ calls' = 0
                    /\ ret' = caught(step)
    /\ UNCHANGED <<conversations, workload, session_state>>

\* the completion capability answers, and analyze_conversation_patterns returns
AnalyzeComplete ==
    /\ workload \in {"storage", "completion"} /\ pc = "completion"
    /\ \E response \in Responses :
        /\ args' = [persona_name |-> args.persona_name, user_id |-> args.user_id,
                    all_messages |-> args.all_messages, response |-> response]
        /\ ret' = caught(after_completion(response))
    /\ pc' = "idle"
    /\ UNCHANGED <<op, conversations, calls, workload, session_state>>

\* lines 211-226: the Create Persona button of the form
CreatePersona ==
    /\ workload = "app" /\ pc = "idle"
    /\ \E form \in Forms :
        /\ op' = "create_persona"
        /\ args' = [form |-> form]
        /\ session_state' =
                IF personality_given(form.personality)
                THEN [character_profile |-> form, chat_history |-> <<>>, persona_created |-> TRUE]
                ELSE session_state
    /\ ret' = Return(None)
    /\ UNCHANGED <<conversations, pc, calls, workload>>

\* lines 228-233: the Clear All button of the form
ClearAll ==
    /\ workload = "app" /\ pc = "idle"
    /\ op' = "clear_persona"
    /\ args' = <<>>
    /\ session_state' = fresh_session
    /\ ret' = Return(None)
    /\ UNCHANGED <<conversations, pc, calls, workload>>

\* lines 275-289 and 59-88: the user message is appended and
\* chat_with_persona runs up to its completion call
ChatSend ==
    /\ workload = "app" /\ pc = "idle"
    /\ session_state.persona_created
    /\ Len(session_state.chat_history) < 2 * MaxTurns
    /\ \E user_input \in UserInputs :
        LET prompt == full_prompt(session_state.character_profile, user_input,
                                  session_state.chat_history)
            history == Append(session_state.chat_history, User(user_input))
        IN  /\ op' = "chat_with_persona"
            /\ args' = [character_profile |-> session_state.character_profile,
                        user_message |-> user_input,
                        chat_history |-> session_state.chat_history,
                        full_prompt |-> prompt]
            /\ IF prompt.t = "return"
               THEN /\ pc' = "chat"
                    /\ calls' = 1
                    /\ ret' = Pending
                    /\ session_state' = [session_state EXCEPT !.chat_history = history]
               ELSE /\ pc' = "idle"
                    /\ calls' = 0
                    /\ ret' = chat_caught(prompt)
                    /\ session_state' =
                            [session_state EXCEPT
                                !.chat_history = Append(history, Assistant(chat_caught(prompt).v.v))]
    /\ UNCHANGED <<conversations, workload>>

\* lines 88-93 and 291-298: the completion capability answers, and the
\* answer is appended to the history
ChatReceive ==
    /\ workload = "app" /\ pc = "chat"
    /\ \E response \in Responses :
        LET ai_response == chat_caught(chat_reply(response)) IN
        /\ args' = [character_profile |-> args.character_profile,
                    user_message |-> args.user_message,
                    chat_history |-> args.chat_history,
                    full_prompt |-> args.full_prompt,
                    response |-> response]
        /\ ret' = ai_response
        /\ session_state' =
                [session_state EXCEPT
                    !.chat_history = Append(session_state.chat_history, Assistant(ai_response.v.v))]
    /\ pc' = "idle"
    /\ UNCHANGED <<op, conversations, calls, workload>>

\* lines 301-304: the Clear Chat button
ClearChat ==
    /\ workload = "app" /\ pc = "idle"
    /\ session_state.persona_created
    /\ Len(session_state.chat_history) > 0
    /\ op' = "clear_chat"
    /\ args' = <<>>
    /\ session_state' = [session_state EXCEPT !.chat_history = <<>>]
    /\ ret' = Return(None)
    /\ UNCHANGED <<conversations, pc, calls, workload>>

\* db.get_persona_conversations; get_db_connection raises when the database
\* cannot be reached
GetPersonaConversations ==
    /\ workload = "isolation" /\ pc = "idle"
    /\ \E persona_name \in PersonaNames, user_id \in UserIds, limit \in Limits, db_up \in BOOLEAN :
        /\ op' = "get_persona_conversations"
        /\ args' = [persona_name |-> persona_name, user_id |-> user_id, limit |-> limit]
        /\ ret' = IF db_up
                  THEN Return(get_persona_conversations(conversations, persona_name, user_id, limit))
                  ELSE Raise("OperationalError")
    /\ Unchanged

\* db.get_all_persona_messages
GetAllPersonaMessages ==
    /\ workload = "isolation" /\ pc = "idle"
    /\ \E persona_name \in PersonaNames, user_id \in UserIds, db_up \in BOOLEAN :
        /\ op' = "get_all_persona_messages"
        /\ args' = [persona_name |-> persona_name, user_id |-> user_id]
        /\ ret' = all_messages_of(conversations, db_up, persona_name, user_id)
    /\ Unchanged

NextPersona == AnalyzeTone \/ GenerateSystemPrompt \/ EnhanceSystemPrompt \/ ApplyFeedback
NextLearning == ApplyLearning \/ ApplyLearningAgain
NextStorage == SaveConversation \/ BuildMemoryContext \/ AnalyzeRead \/ AnalyzeComplete
NextCompletion == AnalyzeRead \/ AnalyzeComplete

NextIsolation == SaveConversation \/ GetPersonaConversations \/ GetAllPersonaMessages

NextApp == CreatePersona \/ ClearAll \/ ChatSend \/ ChatReceive \/ ClearChat

Next == NextPersona \/ NextLearning \/ NextStorage \/ NextApp \/ NextIsolation

Spec == Init /\ [][Next]_vars
SpecPersona == InitPersona /\ [][NextPersona]_vars
SpecLearning == InitLearning /\ [][NextLearning]_vars
SpecStorage == InitStorage /\ [][NextStorage]_vars
SpecCompletion == InitCompletion /\ [][NextCompletion]_vars
SpecApp == InitApp /\ [][NextApp]_vars
SpecIsolation == InitIsolation /\ [][NextIsolation]_vars

(***************************************************************************)
(* Claims.                                                                 *)
(***************************************************************************)
TextFields(d) == \A k \in DOMAIN d : d[k].t = "str"

\* a successful analysis whose suggestions are strings
TextAnalysis(a) ==
    /\ "analysis" \in DOMAIN a
    /\ a.analysis.t = "dict"
    /\ \A k \in DOMAIN a.analysis.v \cap {key_personality, key_behaviors, key_style} :
            a.analysis.v[k].t = "str"

\* C1: apply_learning_to_persona is idempotent: for a profile of text fields
\* and a successful analysis of text suggestions, applying the analysis to
\* the result of applying it returns that result unchanged.
C1_Idempotent ==
    (/\ op = "apply_learning_to_persona"
     /\ args.round = 2
     /\ TextFields(args.character_profile)
     /\ TextAnalysis(args.learning_analysis))
    => ret = Return(args.character_profile)

PublicOperations ==
    {"analyze_tone_and_emoji_patterns", "generate_system_prompt",
     "enhance_system_prompt_with_patterns", "build_memory_context",
     "analyze_conversation_patterns", "apply_learning_to_persona",
     "apply_feedback_to_persona"}

\* C2: no public core operation lets an exception escape, whatever profile
\* (fields absent, empty or None) and whatever analysis result it is given.
C2_NoExceptionEscapes ==
    op \in PublicOperations => ret.t # "raise"

\* a Message of the data model: a dict with a text role and a text content
IsMessage(m) ==
    /\ m.t = "dict"
    /\ {"role", "content"} \subseteq DOMAIN m.v
    /\ m.v["role"].t = "str" /\ m.v["content"].t = "str"

\* C3: when storage returns fewer than 10 messages the analyzer returns the
\* "need at least 5 exchanges" failure and calls no completion; when it
\* returns 10 or more Messages the completion is called and the result is
\* never the insufficient-data failure.
C3_Threshold ==
    (op = "analyze_conversation_patterns" /\ args.all_messages.t = "return")
    => LET all_messages == args.all_messages.v IN
       /\ Len(all_messages) < 10
            => (ret = Failure(insufficient_message) /\ calls = 0 /\ pc = "idle")
       /\ Len(all_messages) >= 10
            => ret # Failure(insufficient_message)
       /\ (Len(all_messages) >= 10 /\ \A i \in DOMAIN all_messages : IsMessage(all_messages[i]))
            => (calls = 1 /\ (pc = "completion" \/ "response" \in DOMAIN args))

\* exactly 10 messages: the completion call is in flight
C3_Witness_TenMessages ==
    /\ op = "analyze_conversation_patterns"
    /\ args.all_messages.t = "return"
    /\ Len(args.all_messages.v) = 10
    /\ pc = "completion" /\ calls = 1

\* the messages of a row as the reader sees them, or Nothing when the row's
\* text does not parse
MessagesOf(row) ==
    IF row.messages.t # "str" THEN row.messages
    ELSE IF json_loads(row.messages.v).t = "return" THEN json_loads(row.messages.v).v
    ELSE Nothing

Unparseable(row) == MessagesOf(row) = Nothing

Lacks(m, key) == m.t # "dict" \/ key \notin DOMAIN m.v

\* the claim's malformed record: unparseable, or a message without role or content
Malformed(row) ==
    \/ Unparseable(row)
    \/ /\ MessagesOf(row).t = "list"
       /\ \E i \in DOMAIN MessagesOf(row).v :
            Lacks(MessagesOf(row).v[i], "role") \/ Lacks(MessagesOf(row).v[i], "content")

LastFour(messages) == {i \in DOMAIN messages : i > Len(messages) - 4}

IsUserMessage(m) == ~Lacks(m, "role") /\ m.v["role"] = Str(role_user)

\* a record the summarizer cannot read: unparseable, or one of its last four
\* messages has no role or is a user message without content
Faulty(row) ==
    \/ Unparseable(row)
    \/ /\ MessagesOf(row).t = "list"
       /\ \E i \in LastFour(MessagesOf(row).v) :
            LET m == MessagesOf(row).v[i] IN
            Lacks(m, "role") \/ (IsUserMessage(m) /\ Lacks(m, "content"))

StorageFailed == args.recent_conversations.t = "raise"
Returned == IF StorageFailed THEN <<>> ELSE args.recent_conversations.v

session_label == Lit("\nPrevious session:\n")
bullet_lead == Lit("- User mentioned: ")

HasLabel(prompt) == \E i \in DOMAIN prompt : prompt[i] = session_label

\* C5 as stated: zero conversations give the empty string, and any non-empty
\* list of conversations gives an output that contains "Previous session:".
C5_LabelForAnyConversation ==
    (op = "build_memory_context" /\ ~StorageFailed)
    => /\ Len(Returned) = 0 => ret = Return(<<>>)
       /\ Len(Returned) > 0 => (ret.t = "return" /\ HasLabel(ret.v))

HasRecentUserMessage(row) ==
    /\ MessagesOf(row).t = "list"
    /\ \E i \in LastFour(MessagesOf(row).v) : IsUserMessage(MessagesOf(row).v[i])

\* C5 amended: zero conversations give the empty string, and a non-empty list
\* of readable conversations gives an output that contains "Previous
\* session:" exactly when some conversation has a user message among its
\* last four messages.
C5_LabelIffUserMessage ==
    (op = "build_memory_context" /\ ~StorageFailed)
    => /\ Len(Returned) = 0 => ret = Return(<<>>)
       /\ (Len(Returned) > 0 /\ \A i \in DOMAIN Returned : ~Faulty(Returned[i]))
            => /\ ret.t = "return"
               /\ HasLabel(ret.v) <=> \E i \in DOMAIN Returned : HasRecentUserMessage(Returned[i])

\* conversations of assistant messages only: header and closing sentence, no label
C5_Witness_NoUserMessage ==
    /\ op = "build_memory_context"
    /\ ~StorageFailed
    /\ Len(Returned) > 0
    /\ \A i \in DOMAIN Returned : Returned[i].messages = c_assistant_only
    /\ ret.t = "return" /\ Len(ret.v) = 2 /\ ~HasLabel(ret.v)

Labels(prompt) == {i \in DOMAIN prompt : prompt[i] = session_label}

\* the bullets of the block whose label is at position i
BulletsOf(prompt, i) ==
    {j \in DOMAIN prompt :
        /\ j > i
        /\ prompt[j] = bullet_lead
        /\ \A k \in Labels(prompt) : ~(i < k /\ k < j)}

\* C6: the recall string holds at most 3 "Previous session:" blocks and at
\* most 2 bullets in each block.
C6_Bounded ==
    (op = "build_memory_context" /\ ret.t = "return")
    => /\ Cardinality(Labels(ret.v)) <= 3
       /\ \A i \in Labels(ret.v) : Cardinality(BulletsOf(ret.v, i)) <= 2

\* four stored conversations, one of them with three recent user messages
C6_Witness_FullRecall ==
    /\ op = "build_memory_context"
    /\ Len(conversations) = 4
    /\ \A i \in DOMAIN conversations : HasRecentUserMessage(conversations[i])
    /\ \E i \in DOMAIN Returned : Returned[i].messages = c_four
    /\ ret.t = "return"
    /\ Cardinality(Labels(ret.v)) = 3
    /\ \E i \in Labels(ret.v) : Cardinality(BulletsOf(ret.v, i)) = 2

\* C7: every value analyze_conversation_patterns returns is success=true
\* with an analysis and no message, or success=false with a message and no
\* analysis.
C7_SuccessXorMessage ==
    (op = "analyze_conversation_patterns" /\ pc = "idle")
    => /\ ret.t = "return"
       /\ \/ /\ ret.v.success
             /\ "analysis" \in DOMAIN ret.v /\ "message" \notin DOMAIN ret.v
          \/ /\ ~ret.v.success
             /\ "message" \in DOMAIN ret.v /\ "analysis" \notin DOMAIN ret.v
             /\ Len(ret.v.message) > 0

\* the raw-text fallback after a completion call
C7_Witness_Fallback ==
    /\ op = "analyze_conversation_patterns" /\ pc = "idle" /\ calls = 1
    /\ ret.t = "return" /\ ret.v.success
    /\ ret.v.analysis = Dict([raw_response |-> Str(<<"a">>)])

\* what the analyzer returns for a cleaned text
Outcome(cleaned) ==
    IF json_loads(cleaned).t = "return" THEN Success(json_loads(cleaned).v)
    ELSE Success(Dict([raw_response |-> Str(cleaned)]))

EndsWith(s, suffix) ==
    Len(s) >= Len(suffix) /\ SubSeq(s, Len(s) - Len(suffix) + 1, Len(s)) = suffix

DropPrefix(s, prefix) == IF startswith(s, prefix) THEN SubSeq(s, Len(prefix) + 1, Len(s)) ELSE s
DropSuffix(s, suffix) == IF EndsWith(s, suffix) THEN SubSeq(s, 1, Len(s) - Len(suffix)) ELSE s

\* the claim's cleaning: the leading fence, a language tag right after it
\* and the trailing fence are removed
FenceStripped(text) ==
    LET t == strip(text, Whitespace) IN
    IF startswith(t, fence)
    THEN DropSuffix(DropPrefix(DropPrefix(DropPrefix(t, fence), json_tag), <<"j", "s">>), fence)
    ELSE t

NonEmptyText == "response" \in DOMAIN args /\ args.response.t = "return" /\ Truthy(args.response.v)

\* C8 as stated: for a non-empty completion text the leading and trailing
\* fence and the language tag are stripped, and the result is success=true
\* with the parsed value, or with raw_response equal to the cleaned text.
C8_FenceStripped ==
    (op = "analyze_conversation_patterns" /\ NonEmptyText)
    => ret = Outcome(FenceStripped(args.response.v.v))

\* t[from..k] is what lies between the opening fence and the next fence of t,
\* or the end of t
UpToNextFence(t, k) ==
    /\ k = Len(t) \/ startswith(SubSeq(t, k + 1, Len(t)), fence)
    /\ \A j \in (Len(fence) + 1)..k : ~startswith(SubSeq(t, j, Len(t)), fence)

\* C8 amended: the text is trimmed; if it then starts with a fence, only what
\* lies between that fence and the next fence (or the end) is kept, less a
\* leading "json"; the result is success=true with the parsed value, or with
\* raw_response equal to that cleaned text.  It is never success=false.
C8_FenceSplit ==
    (op = "analyze_conversation_patterns" /\ NonEmptyText)
    => LET t == strip(args.response.v.v, Whitespace) IN
       /\ ret.t = "return" /\ ret.v.success
       /\ IF startswith(t, fence)
          THEN \E k \in Len(fence)..Len(t) :
                /\ UpToNextFence(t, k)
                /\ ret = Outcome(DropPrefix(SubSeq(t, Len(fence) + 1, k), json_tag))
          ELSE ret = Outcome(t)

\* a fenced answer tagged js: the tag stays in the raw text
C8_Witness_OtherTag ==
    /\ op = "analyze_conversation_patterns" /\ NonEmptyText
    /\ args.response.v.v = fence \o <<"j", "s">> \o <<"{full}">> \o fence
    /\ ret = Success(Dict([raw_response |-> Str(<<"j", "s", "{full}">>)]))

ProfileFields == <<"name", "personality", "behaviors", "speaking_style", "mannerisms", "background">>

RECURSIVE Paragraphs(_, _, _)
\* one labelled paragraph for each of the fields in shown, in order
Paragraphs(character_profile, fields, shown) ==
    IF Len(fields) = 0 THEN <<>>
    ELSE (IF fields[1] \in shown
          THEN <<Lit(FieldLabel(fields[1])), Txt(character_profile[fields[1]].v), Lit("\n\n")>>
          ELSE <<>>)
         \o Paragraphs(character_profile, Tail(fields), shown)

prompt_header == Lit("You are roleplaying as a character with the following attributes:\n\n")

NonBlank(character_profile, field) ==
    /\ field \in DOMAIN character_profile
    /\ character_profile[field].t = "str"
    /\ strip(character_profile[field].v, Whitespace) # <<>>

NonEmpty(character_profile, field) ==
    /\ field \in DOMAIN character_profile
    /\ character_profile[field].t = "str"
    /\ character_profile[field].v # <<>>

AbsentFields(character_profile) ==
    {ProfileFields[i] : i \in DOMAIN ProfileFields} \ DOMAIN character_profile

With(character_profile, field, value) ==
    [f \in DOMAIN character_profile \cup {field} |->
        IF f = field THEN value ELSE character_profile[f]]

ContainsAnyCase(text, word) ==
    \E i \in 0..(Len(text) - Len(word)) :
        \A k \in 1..Len(word) : LowerChar(text[i + k]) = word[k]

Cheerful(character_profile) ==
    /\ TextFields(character_profile)
    /\ "personality" \in DOMAIN character_profile
    /\ ContainsAnyCase(character_profile["personality"].v, kw_cheerful)

frequent_sentence ==
    Lit("\n\nEmoji Usage: Use emojis frequently to express emotions and add warmth. Examples: ")

\* C10: a profile whose personality contains "cheerful" in any letter case is
\* classified emoji_usage=high with the 8 example glyphs, whatever low-emoji
\* keywords the profile holds, and the enhanced prompt holds the
\* frequent-emoji sentence that lists the 8 glyphs.
C10_CheerfulIsHigh ==
    /\ (op = "analyze_tone_and_emoji_patterns" /\ Cheerful(args.character_profile))
        => /\ ret.t = "return"
           /\ ret.v.emoji_usage = "high"
           /\ Len(ret.v.emoji_examples) = 8
           /\ ret.v.emoji_examples = high_emoji_examples
    /\ (op = "enhance_system_prompt_with_patterns" /\ Cheerful(args.character_profile))
        => /\ ret.t = "return"
           /\ \E i \in DOMAIN ret.v :
                /\ ret.v[i] = frequent_sentence
                /\ i + 15 <= Len(ret.v)
                /\ \A g \in 1..8 : ret.v[i + 2 * g - 1] = high_emoji_examples[g]
                /\ \A g \in 1..7 : ret.v[i + 2 * g] = Lit(", ")

\* an upper-case CHEERFUL next to a reserved speaking style
C10_Witness_CheerfulReserved ==
    /\ op = "enhance_system_prompt_with_patterns"
    /\ "personality" \in DOMAIN args.character_profile
    /\ "speaking_style" \in DOMAIN args.character_profile
    /\ args.character_profile["personality"] = Str(t_CHEERFUL)
    /\ args.character_profile["speaking_style"] = Str(t_reserved)
    /\ args.patterns.emoji_usage = "high"
    /\ \E i \in DOMAIN ret.v : ret.v[i] = frequent_sentence

\* some high-emoji keyword occurs in text, letter case ignored
HasHighKeyword(text) ==
    \E k \in DOMAIN high_emoji_keywords : ContainsAnyCase(text, high_emoji_keywords[k])

FormalPersonality(character_profile) ==
    /\ TextFields(character_profile)
    /\ "personality" \in DOMAIN character_profile
    /\ Contains(character_profile["personality"].v, kw_formal)

Minimal == ret.t = "return" /\ ret.v.emoji_usage = "minimal" /\ ret.v.emoji_examples = <<>>

\* C11 as stated: for every profile of text fields whose personality contains
\* "formal" and no high-emoji keyword, whatever the other fields hold, the
\* classifier returns emoji_usage=minimal and no emoji examples.
C11_FormalIsMinimal ==
    (/\ op = "analyze_tone_and_emoji_patterns"
     /\ FormalPersonality(args.character_profile)
     /\ ~HasHighKeyword(args.character_profile["personality"].v))
    => Minimal

\* C11 amended: for every profile of text fields whose personality contains
\* "formal" and where neither personality nor speaking_style contains a
\* high-emoji keyword in any letter case, the classifier returns
\* emoji_usage=minimal and no emoji examples.
C11_FormalIsMinimalUnlessHigh ==
    (/\ op = "analyze_tone_and_emoji_patterns"
     /\ FormalPersonality(args.character_profile)
     /\ ~HasHighKeyword(args.character_profile["personality"].v)
     /\ "speaking_style" \in DOMAIN args.character_profile
            => ~HasHighKeyword(args.character_profile["speaking_style"].v))
    => Minimal

\* a formal personality next to a casual speaking style
C11_Witness_FormalCasual ==
    /\ op = "analyze_tone_and_emoji_patterns"
    /\ DOMAIN args.character_profile = {"personality", "speaking_style"}
    /\ args.character_profile["personality"] = Str(t_formal)
    /\ args.character_profile["speaking_style"] = Str(t_casual)
    /\ Minimal

\* the recall string the summarizer gives for the persona of a profile
MemoryOf(character_profile) ==
    LET named == {n \in PersonaNames : Str(<<n>>) = character_profile["name"]} IN
    IF named = {} THEN <<>>
    ELSE build_memory_context(conversations, TRUE, CHOOSE n \in named : TRUE, None).v

\* C12: on every chat turn the memory summary is resolved before the prompt
\* is composed, and a non-empty memory context appears verbatim in the prompt
\* that is sent to the completion capability for that turn.
C12_MemoryInPrompt ==
    (op = "chat_with_persona" /\ args.full_prompt.t = "return")
    => LET memory == MemoryOf(args.character_profile) IN
       memory # <<>> => Contains(args.full_prompt.v, memory)

LearnedFields == {"personality", "behaviors", "speaking_style"}

UserIndices(messages) == {i \in DOMAIN messages : IsUserMessage(messages[i])}

Largest(S) == CHOOSE a \in S : \A b \in S : b <= a

\* the two largest of a set of indices, the largest first
TwoMostRecent(S) ==
    IF S = {} THEN <<>>
    ELSE IF S \ {Largest(S)} = {} THEN <<Largest(S)>>
    ELSE <<Largest(S), Largest(S \ {Largest(S)})>>

BulletFor(m) == <<bullet_lead, Txt(First(m.v["content"].v, 80)), Lit("...")>>

\* the block of a conversation whose bullets are the messages at idx
BlockOf(messages, idx) ==
    IF idx = <<>> THEN <<>>
    ELSE <<session_label>> \o JoinLines([k \in DOMAIN idx |-> BulletFor(messages[idx[k]])])

memory_header == Lit("\n\nMemory from previous conversations:\n")
memory_closing == Lit("\n\nUse these memories naturally in conversation when relevant.")

Readable(row) == MessagesOf(row).t = "list" /\ ~Faulty(row)

AllReadable ==
    /\ op = "build_memory_context" /\ ~StorageFailed /\ Len(Returned) > 0
    /\ \A i \in DOMAIN Returned : Readable(Returned[i])

\* C14 as stated: for each conversation the bullets emitted are the two most
\* recent user messages of that conversation, the most recent first.
C14_TwoMostRecentOfConversation ==
    AllReadable
    => ret = Return(<<memory_header>>
                    \o Flatten([i \in DOMAIN Returned |->
                            BlockOf(MessagesOf(Returned[i]).v,
                                    TwoMostRecent(UserIndices(MessagesOf(Returned[i]).v)))])
                    \o <<memory_closing>>)

\* C14 amended: for each conversation the bullets emitted are the two most
\* recent user messages among the last four messages of that conversation
\* (fewer when the last four hold fewer), the most recent first.
C14_TwoMostRecentOfLastFour ==
    AllReadable
    => ret = Return(<<memory_header>>
                    \o Flatten([i \in DOMAIN Returned |->
                            BlockOf(MessagesOf(Returned[i]).v,
                                    TwoMostRecent(UserIndices(MessagesOf(Returned[i]).v)
                                                  \cap LastFour(MessagesOf(Returned[i]).v)))])
                    \o <<memory_closing>>)

\* a conversation whose earlier user message lies before its last four
\* messages, recalled next to one with three recent user messages
C14_Witness_EarlierUserMessage ==
    /\ AllReadable
    /\ \E i \in DOMAIN Returned : Returned[i].messages = c_five
    /\ \E i \in DOMAIN Returned : Returned[i].messages = c_four
    /\ ret.t = "return"
    /\ Contains(ret.v, <<bullet_lead, Txt(<<"u", "3">>), Lit("..."), Lit("\n"),
                         bullet_lead, Txt(<<"u", "2">>), Lit("...")>>)
    /\ ~Contains(ret.v, <<Txt(<<"u", "1">>)>>)

StorageReadFailed == args.all_messages.t = "raise"
Answered == "response" \in DOMAIN args

\* C15: in every run of analyze_conversation_patterns the completion
\* capability is called at most once and only after the storage read has
\* returned; when the storage read or the completion call fails the result is
\* success=false with the error text, and when the completion returns empty
\* text the result is success=false with the "Unable to generate analysis"
\* message.
C15_OneCallAfterRead ==
    op = "analyze_conversation_patterns"
    => /\ calls <= 1
       /\ (calls = 1 \/ pc = "completion" \/ Answered) => ~StorageReadFailed
       /\ StorageReadFailed
            => (pc = "idle" /\ ret = Failure(<<Lit("Error analyzing patterns: "),
                                                Lit(args.all_messages.v)>>))
       /\ (Answered /\ args.response.t = "raise")
            => ret = Failure(<<Lit("Error analyzing patterns: "), Lit(args.response.v)>>)
       /\ (Answered /\ args.response.t = "return" /\ args.response.v \in {None, Str(<<>>)})
            => ret = Failure(<<Lit("Unable to generate analysis at this time.")>>)

\* the completion capability gave an empty text
C15_Witness_EmptyText ==
    /\ op = "analyze_conversation_patterns" /\ pc = "idle" /\ calls = 1
    /\ Answered /\ args.response = Return(Str(<<>>))
    /\ ret = Failure(unable_message)

\* the bullet as the claim has it: the content cut to 80 characters, and the
\* ellipsis only after a content that was longer
MarkedIfCut(m) ==
    <<bullet_lead, Txt(First(m.v["content"].v, 80))>>
    \o (IF Len(m.v["content"].v) > 80 THEN <<Lit("...")>> ELSE <<>>)

MarkedBlockOf(messages, idx) ==
    IF idx = <<>> THEN <<>>
    ELSE <<session_label>> \o JoinLines([k \in DOMAIN idx |-> MarkedIfCut(messages[idx[k]])])

\* C16: in each memory bullet the content of the user message is cut to at
\* most 80 characters, and the ellipsis follows it if and only if the content
\* was longer than 80 characters.
C16_EllipsisIffLonger ==
    AllReadable
    => ret = Return(<<memory_header>>
                    \o Flatten([i \in DOMAIN Returned |->
                            MarkedBlockOf(MessagesOf(Returned[i]).v,
                                          TwoMostRecent(UserIndices(MessagesOf(Returned[i]).v)
                                                        \cap LastFour(MessagesOf(Returned[i]).v)))])
                    \o <<memory_closing>>)

\* the instruction of each tone group, in the order of the groups
ToneInstructions ==
    <<"Use warm, welcoming language",
      "Maintain professional demeanor",
      "Keep responses conversational and relaxed",
      "Show excitement with exclamation marks",
      "Take time to reflect before responding",
      "Include appropriate humor and wit">>

\* the keywords of each tone group
ToneGroups ==
    <<{kw_friendly, kw_warm},
      {kw_professional, kw_formal},
      {kw_casual, kw_relaxed},
      {kw_enthusiastic, kw_excited},
      {kw_thoughtful, kw_contemplative},
      {kw_humorous, kw_witty, kw_funny}>>

\* the field each keyword of a group is looked for in
ToneTests ==
    <<{<<"personality", kw_friendly>>, <<"personality", kw_warm>>},
      {<<"personality", kw_professional>>, <<"speaking_style", kw_formal>>},
      {<<"speaking_style", kw_casual>>, <<"personality", kw_relaxed>>},
      {<<"personality", kw_enthusiastic>>, <<"personality", kw_excited>>},
      {<<"personality", kw_thoughtful>>, <<"personality", kw_contemplative>>},
      {<<"personality", kw_humorous>>, <<"personality", kw_witty>>, <<"personality", kw_funny>>}>>

FieldText(character_profile, field) ==
    IF field \in DOMAIN character_profile THEN character_profile[field].v ELSE <<>>

\* a keyword of group g occurs in personality or in speaking_style
PresentAnywhere(character_profile, g) ==
    \E kw \in ToneGroups[g], field \in {"personality", "speaking_style"} :
        ContainsAnyCase(FieldText(character_profile, field), kw)

\* a keyword of group g occurs in the field it is looked for in
PresentInItsField(character_profile, g) ==
    \E test \in ToneTests[g] : ContainsAnyCase(FieldText(character_profile, test[1]), test[2])

RECURSIVE InstructionsFrom(_, _)
\* the instructions of the groups in on, from group g onwards, in group order
InstructionsFrom(g, on) ==
    IF g > Len(ToneInstructions) THEN <<>>
    ELSE (IF g \in on THEN <<Lit(ToneInstructions[g])>> ELSE <<>>) \o InstructionsFrom(g + 1, on)

\* C17 as stated: for each of the six tone groups, whenever one of its
\* keywords is present in the lower-cased personality or speaking_style, the
\* group's instruction is in tone_patterns, independently of the other groups,
\* and tone_patterns follows the order of the groups.
C17_KeywordInEitherField ==
    (op = "analyze_tone_and_emoji_patterns" /\ TextFields(args.character_profile))
    => /\ ret.t = "return"
       /\ \A g \in DOMAIN ToneGroups :
            PresentAnywhere(args.character_profile, g)
                => \E i \in DOMAIN ret.v.tone_patterns :
                        ret.v.tone_patterns[i] = Lit(ToneInstructions[g])
       /\ \E on \in SUBSET DOMAIN ToneGroups : ret.v.tone_patterns = InstructionsFrom(1, on)

\* C17 amended: tone_patterns holds, in the order of the groups, the
\* instruction of exactly those groups one of whose keywords is present in
\* the lower-cased field that keyword is looked for in: friendly, warm,
\* professional, relaxed, enthusiastic, excited, thoughtful, contemplative,
\* humorous, witty and funny in personality; formal and casual in
\* speaking_style.
C17_KeywordInItsField ==
    (op = "analyze_tone_and_emoji_patterns" /\ TextFields(args.character_profile))
    => ret.t = "return"
       /\ ret.v.tone_patterns =
            InstructionsFrom(1, {g \in DOMAIN ToneGroups :
                                    PresentInItsField(args.character_profile, g)})

\* three groups at once, and a keyword in the field it is not looked for in
C17_Witness_ThreeGroups ==
    /\ op = "analyze_tone_and_emoji_patterns"
    /\ DOMAIN args.character_profile = {"personality", "speaking_style"}
    /\ args.character_profile["personality"] = Str(t_friendly_funny)
    /\ args.character_profile["speaking_style"] = Str(t_formal)
    /\ ret.t = "return"
    /\ ret.v.tone_patterns = <<Lit("Use warm, welcoming language"),
                               Lit("Maintain professional demeanor"),
                               Lit("Include appropriate humor and wit")>>

feedback_lead_in == Lit("Here are some ways to improve:")
style_bullet == Lit("- Try adjusting the speaking style for better alignment")
personality_bullet == Lit("- Consider refining personality traits to better match expectations")
closing_bullet == Lit("- Use the 'Refine' feature to get AI-powered suggestions")
encouragement ==
    <<Lit("Great! The character's response style is working well in this context."),
      Lit("Consider saving this persona if you haven't already.")>>

If(cond, piece) == IF cond THEN <<piece>> ELSE <<>>

\* C18 as stated: for a negative signal the result is the lead-in, the
\* speaking-style bullet if and only if speaking_style is non-empty, the
\* personality bullet if and only if personality is non-empty, and the closing
\* bullet; for a positive signal it is the fixed two-item list.
C18_BulletsIfNonEmpty ==
    op = "apply_feedback_to_persona"
    => IF args.feedback_type = "positive"
       THEN ret = Return(encouragement)
       ELSE ret = Return(<<feedback_lead_in>>
                         \o If(NonEmpty(args.character_profile, "speaking_style"), style_bullet)
                         \o If(NonEmpty(args.character_profile, "personality"), personality_bullet)
                         \o <<closing_bullet>>)

\* C18 amended: for a negative signal the result is the lead-in, the
\* speaking-style bullet if and only if the profile has the key
\* speaking_style, the personality bullet if and only if it has the key
\* personality (whatever the values, empty ones included), and the closing
\* bullet; for a positive signal it is the fixed two-item list.
C18_BulletsIfPresent ==
    op = "apply_feedback_to_persona"
    => IF args.feedback_type = "positive"
       THEN ret = Return(encouragement)
       ELSE ret = Return(<<feedback_lead_in>>
                         \o If("speaking_style" \in DOMAIN args.character_profile, style_bullet)
                         \o If("personality" \in DOMAIN args.character_profile, personality_bullet)
                         \o <<closing_bullet>>)

\* a negative signal for a profile with both keys, the personality empty
C18_Witness_EmptyPersonality ==
    /\ op = "apply_feedback_to_persona"
    /\ args.feedback_type = "negative"
    /\ {"personality", "speaking_style"} \subseteq DOMAIN args.character_profile
    /\ args.character_profile["personality"] = Str(<<>>)
    /\ NonEmpty(args.character_profile, "speaking_style")
    /\ ret = Return(<<feedback_lead_in, style_bullet, personality_bullet, closing_bullet>>)

instructions_heading == Lit("\nInstructions:\n")

\* the prompt from its instructions heading to its end
InstructionBlock(prompt) ==
    LET at == {i \in DOMAIN prompt : prompt[i] = instructions_heading} IN
    IF at = {} THEN <<>>
    ELSE SubSeq(prompt, CHOOSE i \in at : \A j \in at : i <= j, Len(prompt))

\* the pieces of the prompt before its instructions heading
BeforeInstructions(prompt) == SubSeq(prompt, 1, Len(prompt) - Len(InstructionBlock(prompt)))

\* the block generate_system_prompt gives for the empty profile
EmptyProfileBlock == InstructionBlock(generate_system_prompt(<<>>).v)

\* C19 as stated: the instruction block that follows the profile paragraphs
\* is the same for every profile and holds exactly five instructions.
C19_FiveInstructions ==
    op = "generate_system_prompt"
    => /\ ret.t = "return"
       /\ InstructionBlock(ret.v) = EmptyProfileBlock
       /\ Len(InstructionBlock(ret.v)) = 1 + 5

\* C19 amended: the instruction block that follows the profile paragraphs is
\* the same for every profile and holds exactly six instructions under its
\* heading.
C19_SixInstructions ==
    op = "generate_system_prompt"
    => /\ ret.t = "return"
       /\ InstructionBlock(ret.v) = EmptyProfileBlock
       /\ Len(InstructionBlock(ret.v)) = 1 + 6
       /\ \A i \in 2..Len(InstructionBlock(ret.v)) : InstructionBlock(ret.v)[i].t = "lit"
       /\ BeforeInstructions(ret.v) =
            <<prompt_header>>
            \o Paragraphs(args.character_profile, ProfileFields,
                          {f \in DOMAIN args.character_profile : NonEmpty(args.character_profile, f)})

\* the block after the paragraphs of a profile with a name and a background
C19_Witness_AfterParagraphs ==
    /\ op = "generate_system_prompt"
    /\ NonEmpty(args.character_profile, "name")
    /\ NonEmpty(args.character_profile, "background")
    /\ ret.t = "return"
    /\ Len(BeforeInstructions(ret.v)) >= 7
    /\ Len(InstructionBlock(ret.v)) = 7
    /\ ret.v[Len(ret.v)] =
        Lit("- If asked about things outside your character's knowledge, respond as that character would\n")

BlankText(x) == x.t # "str" \/ strip(x.v, Whitespace) = <<>>

\* C20: in the session state, after any sequence of Create Persona, Clear
\* All, chat and Clear Chat actions, persona_created is true only if
\* character_profile holds a personality that is non-blank after trimming; a
\* Create Persona with a blank personality leaves the profile, the chat
\* history and persona_created unchanged; and Clear All leaves
\* persona_created false with an empty profile.
C20_SessionState ==
    /\ [](session_state.persona_created
            => NonBlank(session_state.character_profile, "personality"))
    /\ [](op = "clear_persona"
            => (~session_state.persona_created /\ session_state.character_profile = <<>>))
    /\ [][(op' = "create_persona" /\ BlankText(args'.form.personality))
            => session_state' = session_state]_vars

\* a Create Persona with a blank personality after a chat turn with the
\* persona created before
C20_Witness_BlankCreateKeepsChat ==
    /\ op = "create_persona"
    /\ args.form.personality = Str(<<" ">>)
    /\ session_state.persona_created
    /\ Len(session_state.chat_history) = 2
    /\ NonBlank(session_state.character_profile, "personality")

RoleOf(message) == message.v["role"]

Alternates(chat_history) ==
    \A i \in DOMAIN chat_history :
        RoleOf(chat_history[i]) = IF i % 2 = 1 THEN Str(role_user) ELSE Str(role_assistant)

CompletionFailed ==
    op = "chat_with_persona" /\ "response" \in DOMAIN args /\ args.response.t = "raise"

\* C21: after any sequence of app actions chat_history is non-empty only
\* while persona_created is true; it alternates user then assistant messages
\* and has even length after each completed turn; every successful Create
\* Persona and every Clear All leaves it empty; and a completion failure
\* during a turn still appends one assistant message holding the error text,
\* and nothing is raised.
C21_ChatHistory ==
    /\ Len(session_state.chat_history) > 0 => session_state.persona_created
    /\ Alternates(session_state.chat_history)
    /\ pc = "idle" => Len(session_state.chat_history) % 2 = 0
    /\ pc = "chat" => Len(session_state.chat_history) % 2 = 1
    /\ (op = "create_persona" /\ ~BlankText(args.form.personality))
            => session_state.chat_history = <<>>
    /\ op = "clear_persona" => session_state.chat_history = <<>>
    /\ CompletionFailed
            => /\ ret = Return(Str(<<"Error generating response: ", args.response.v>>))
               /\ session_state.chat_history =
                    args.chat_history
                    \o <<User(args.user_message),
                         Assistant(<<"Error generating response: ", args.response.v>>)>>

\* the completion fails in the second turn of a chat
C21_Witness_FailedSecondTurn ==
    /\ CompletionFailed
    /\ pc = "idle"
    /\ Len(args.chat_history) = 2
    /\ Len(session_state.chat_history) = 4
    /\ session_state.chat_history[4] =
        Assistant(<<"Error generating response: ", "ServerError">>)

\* the rows saved with this persona name and this owner, by their place in
\* the table; an absent owner is the owner None
SavedFor(persona_name, user_id) ==
    {i \in DOMAIN conversations :
        /\ conversations[i].persona_name = persona_name
        /\ conversations[i].user_id = user_id}

\* the k-th latest of a set of rows
Latest(S, k) == CHOOSE i \in S : Cardinality({j \in S : j > i}) = k - 1

RECURSIVE MessagesFrom(_, _)
\* the messages of the rows in S from row i onwards, in the order saved
MessagesFrom(i, S) ==
    IF i > Len(conversations) THEN <<>>
    ELSE (IF i \in S THEN conversations[i].messages.v ELSE <<>>) \o MessagesFrom(i + 1, S)

\* C22: after any sequence of save_conversation calls,
\* get_persona_conversations and get_all_persona_messages for a persona and
\* an owner return only records saved with that persona name and that owner
\* (an absent owner matching only records saved without owner), whatever was
\* saved under other personas and owners; get_persona_conversations returns
\* at most limit records, the most recent first, and
\* get_all_persona_messages returns the messages in chronological order.
C22_Isolated ==
    /\ (op = "get_persona_conversations" /\ ret.t = "return")
        => LET mine == SavedFor(args.persona_name, args.user_id) IN
           /\ Len(ret.v) <= args.limit
           /\ Len(ret.v) = Min(args.limit, Cardinality(mine))
           /\ \A k \in DOMAIN ret.v : ret.v[k] = conversations[Latest(mine, k)]
    /\ (op = "get_all_persona_messages" /\ ret.t = "return")
        => ret.v = MessagesFrom(1, SavedFor(args.persona_name, args.user_id))

\* an owner's two conversations with a persona, read next to a conversation
\* another owner saved with the same persona
C22_Witness_OtherOwner ==
    /\ op = "get_persona_conversations" /\ ret.t = "return"
    /\ args.user_id = Num(1) /\ args.limit = 1
    /\ Cardinality(SavedFor(args.persona_name, Num(1))) = 2
    /\ SavedFor(args.persona_name, None) \cup SavedFor(args.persona_name, Num(2)) # {}
    /\ Len(ret.v) = 1
    /\ ret.v[1].user_id = Num(1)

====
